---- MODULE Spec2Model ----
(***************************************************************************)
(* Quantum Veil, TypeScript client: the attribute encryptor                *)
(* (crypto.ts, crypto/encryption.ts), the privacy client                   *)
(* (GlitchGangPrivacyClient) and the asynchronous utilities (retry,        *)
(* debounce, waitForConfirmation, loadVrmModel) as state machines.  An     *)
(* asynchronous function is one action per stretch between two awaits.     *)
(*                                                                         *)
(* A Buffer is a sequence of bytes 0..255.  A call either returns a value  *)
(* or throws; both outcomes are records built by Return and Throw.         *)
(*                                                                         *)
(* Node's AEAD primitives (createCipheriv / createDecipheriv) are library  *)
(* code.  They are modelled by a keyed stream (CipherUpdate) and a keyed   *)
(* 16 byte checksum (AuthTag) over cipher, key, nonce and ciphertext: a    *)
(* stand-in that is deterministic, invertible with the key and sensitive   *)
(* to every single bit of its inputs.  NoForgery states the ideal          *)
(* behaviour the stand-in is trusted for.                                  *)
(***************************************************************************)
EXTENDS Integers, Sequences, FiniteSets, TLC

\* ------------------------------------------------------------------ bounds
\* longest plaintext handed to the encryptor directly
MaxLen == 2
\* seal calls in one behaviour of SpecSeal
MaxSeals == 2
\* longest attribute list of an input bundle
MaxAttrs == 2
\* client calls in one behaviour
MaxCalls == 2
\* applyVrmPrivacyMask calls in one behaviour of SpecTrust
MaxMasks == 2
\* largest maxRetries passed to retry
MaxRetries == 3
\* largest timeout of waitForConfirmation, in poll intervals
MaxPolls == 3
\* loadVrmModel calls in one behaviour
MaxLoads == 3
\* largest wait of a debounced function, in ms
MaxWait == 2
\* calls of a debounced function in one behaviour
MaxBurst == 3
\* the time a behaviour of SpecDebounce covers, in ms
MaxTime == 4

\* ------------------------------------------------------- program constants
KeyLen == 32
AesIvLen == 16
ChaChaNonceLen == 12
TagLen == 16

AES == "aes-256-gcm"
CHACHA == "chacha20-poly1305"

\* ------------------------------------------------------------ byte helpers
Min(a, b) == IF a < b THEN a ELSE b

\* Buffer.subarray(start, end): bytes start..end-1 (0-based), clipped to the buffer
subarray(buf, start, end) ==
  IF start >= Min(end, Len(buf)) THEN << >> ELSE SubSeq(buf, start + 1, Min(end, Len(buf)))

\* byte with bit b (0..7) inverted
FlipBitOf(byte, b) ==
  LET w == 2 ^ b
  IN  IF (byte \div w) % 2 = 1 THEN byte - w ELSE byte + w

\* crypto.randomBytes(n) for one state `seed` of the entropy source
randomBytes(seed, n) == [i \in 1..n |-> (seed * 97 + i * 13 + 5) % 256]

\* the entropy source's possible states for one call
Seeds == {0, 1}

\* a 32 byte key, as generateEncryptionKey() may return it
KeyBytes(k) == [i \in 1..KeyLen |-> (k * 31 + i * 7) % 256]
Keys == {KeyBytes(1), KeyBytes(2)}

\* plaintexts handed to the encryptor directly
ByteAlphabet == {7, 200}
RECURSIVE SeqsUpTo(_, _)
SeqsUpTo(S, n) ==
  IF n = 0 THEN {<< >>}
  ELSE LET shorter == SeqsUpTo(S, n - 1)
       IN  shorter \cup {Append(s, x) : s \in {t \in shorter : Len(t) = n - 1}, x \in S}
Plaintexts == SeqsUpTo(ByteAlphabet, MaxLen)

\* ----------------------------------------------------------- call outcomes
Return(alg, v) == [threw |-> FALSE, error |-> "", alg |-> alg, data |-> v]
Throw(alg, e) == [threw |-> TRUE, error |-> e, alg |-> alg, data |-> << >>]

\* ---------------------------------------------------- the AEAD primitives
AlgConst(alg) == IF alg = AES THEN 17 ELSE 101

KeyStream(alg, key, iv, j) ==
  (AlgConst(alg) + key[((j - 1) % Len(key)) + 1] + iv[((j - 1) % Len(iv)) + 1] + 3 * j) % 256

\* cipher.update(data) ++ cipher.final()
CipherUpdate(alg, key, iv, data) ==
  [j \in 1..Len(data) |-> (data[j] + KeyStream(alg, key, iv, j)) % 256]

\* decipher.update(ciphertext): the bytes produced before the tag is verified
DecipherUpdate(alg, key, iv, ct) ==
  [j \in 1..Len(ct) |-> (ct[j] + 256 - KeyStream(alg, key, iv, j)) % 256]

\* sum of the bytes of s at the positions congruent to i modulo 16
RECURSIVE FoldAt(_, _)
FoldAt(s, i) == IF i > Len(s) THEN 0 ELSE s[i] + FoldAt(s, i + TagLen)

\* cipher.getAuthTag()
AuthTag(alg, key, iv, ct) ==
  [i \in 1..TagLen |->
     (AlgConst(alg) * i + key[i] + 3 * key[i + TagLen] + 5 * FoldAt(iv, i)
        + FoldAt(ct, i) + 11 * Len(ct) + 7 * Len(iv)) % 256]

\* tag lengths decipher.setAuthTag accepts: GCM takes 4, 8 and 12..16 bytes,
\* chacha20-poly1305 with authTagLength 16 takes exactly 16
TagLengths(alg) == IF alg = AES THEN {4, 8, 12, 13, 14, 15, 16} ELSE {TagLen}

\* decipher.final(): the tag set by setAuthTag against the computed one
TagVerifies(alg, key, iv, tag, ct) ==
  tag = SubSeq(AuthTag(alg, key, iv, ct), 1, Len(tag))

\* -------------------------------------------------- crypto/encryption.ts
\* encrypt(data, key) with the entropy source in state seed
encrypt_ivCtTag(data, key, seed) ==
  LET iv == randomBytes(seed, AesIvLen)
      encrypted == CipherUpdate(AES, key, iv, data)
      authTag == AuthTag(AES, key, iv, encrypted)
  IN  Return(AES, iv \o encrypted \o authTag)

encrypt_fixedIv(data, key, seed) ==
  LET iv == [i \in 1..AesIvLen |-> 0]
      encrypted == CipherUpdate(AES, key, iv, data)
      authTag == AuthTag(AES, key, iv, encrypted)
  IN  Return(AES, iv \o authTag \o encrypted)

encrypt(data, key, seed) ==
  IF Len(key) # KeyLen THEN Throw(AES, "Invalid key length")
  ELSE
  LET iv == randomBytes(seed, AesIvLen)
      encrypted == CipherUpdate(AES, key, iv, data)
      authTag == AuthTag(AES, key, iv, encrypted)
  IN  Return(AES, iv \o authTag \o encrypted)

decrypt_noAuth(encryptedData, key) ==
  LET iv == subarray(encryptedData, 0, 16)
      ciphertext == subarray(encryptedData, 32, Len(encryptedData))
  IN  Return(AES, DecipherUpdate(AES, key, iv, ciphertext))

decrypt(encryptedData, key) ==
  LET iv == subarray(encryptedData, 0, 16)
      authTag == subarray(encryptedData, 16, 32)
      ciphertext == subarray(encryptedData, 32, Len(encryptedData))
  IN  IF Len(key) # KeyLen THEN Throw(AES, "Invalid key length")
      ELSE IF Len(iv) = 0 THEN Throw(AES, "Invalid initialization vector")
      ELSE IF Len(authTag) \notin TagLengths(AES)
             THEN Throw(AES, "Invalid authentication tag length")
      ELSE LET updated == DecipherUpdate(AES, key, iv, ciphertext)
           IN  IF TagVerifies(AES, key, iv, authTag, ciphertext)
                 THEN Return(AES, updated)
                 ELSE Throw(AES, "AuthenticationError")

\* encryptChaCha20(data, key); available: the build supports chacha20-poly1305
encryptChaCha20(data, key, seed, available) ==
  IF Len(key) # KeyLen THEN Throw(CHACHA, "ChaCha20-Poly1305 requires a 32-byte key")
  ELSE IF available
    THEN LET nonce == randomBytes(seed, ChaChaNonceLen)
             ciphertext == CipherUpdate(CHACHA, key, nonce, data)
             authTag == AuthTag(CHACHA, key, nonce, ciphertext)
         IN  Return(CHACHA, nonce \o authTag \o ciphertext)
    ELSE encrypt(data, key, seed)

decryptChaCha20(encryptedData, key, available) ==
  IF Len(key) # KeyLen THEN Throw(CHACHA, "ChaCha20-Poly1305 requires a 32-byte key")
  ELSE
  LET nonce == subarray(encryptedData, 0, 12)
      authTag == subarray(encryptedData, 12, 28)
      ciphertext == subarray(encryptedData, 28, Len(encryptedData))
      accepted == /\ available
                  /\ Len(nonce) = ChaChaNonceLen
                  /\ Len(authTag) \in TagLengths(CHACHA)
                  /\ TagVerifies(CHACHA, key, nonce, authTag, ciphertext)
  IN  IF accepted
        THEN Return(CHACHA, DecipherUpdate(CHACHA, key, nonce, ciphertext))
        ELSE decrypt(encryptedData, key)

\* ------------------------------------------------------------ conversions
\* A string is its sequence of UTF-16 code units (all below 2048 here).

\* the concatenation of pieces[lo..hi]
RECURSIVE Flatten(_, _, _)
Flatten(pieces, lo, hi) ==
  IF lo > hi THEN << >>
  ELSE IF lo = hi THEN pieces[lo]
  ELSE LET mid == (lo + hi) \div 2
       IN  Flatten(pieces, lo, mid) \o Flatten(pieces, mid + 1, hi)

\* Buffer.from(string): UTF-8
BufferFrom(str) ==
  Flatten([i \in 1..Len(str) |->
             IF str[i] < 128 THEN <<str[i]>>
             ELSE <<192 + (str[i] \div 64), 128 + (str[i] % 64)>>],
          1, Len(str))

IsLead(b) == b >= 192 /\ b < 224
IsContinuation(b) == b >= 128 /\ b < 192

\* buffer.toString(): UTF-8 decoding, U+FFFD for a byte that starts no sequence
toString(buf) ==
  Flatten([i \in 1..Len(buf) |->
             IF buf[i] < 128 THEN <<buf[i]>>
             ELSE IF IsLead(buf[i]) /\ i < Len(buf) /\ IsContinuation(buf[i + 1])
               THEN <<(buf[i] - 192) * 64 + (buf[i + 1] - 128)>>
             ELSE IF IsContinuation(buf[i]) /\ i > 1 /\ IsLead(buf[i - 1])
               THEN << >>
             ELSE <<65533>>],
          1, Len(buf))

\* the base64 alphabet: A-Z a-z 0-9 + /
B64Char(v) ==
  IF v < 26 THEN 65 + v
  ELSE IF v < 52 THEN 97 + (v - 26)
  ELSE IF v < 62 THEN 48 + (v - 52)
  ELSE IF v = 62 THEN 43 ELSE 47

B64Val(c) ==
  IF c >= 65 /\ c <= 90 THEN c - 65
  ELSE IF c >= 97 /\ c <= 122 THEN c - 97 + 26
  ELSE IF c >= 48 /\ c <= 57 THEN c - 48 + 52
  ELSE IF c = 43 THEN 62
  ELSE IF c = 47 THEN 63 ELSE -1

\* buffer.toString('base64'): 4 characters for every 3 bytes, '=' padded
toBase64(buf) ==
  LET n == Len(buf)
      byte(i) == IF i <= n THEN buf[i] ELSE 0
  IN  [k \in 1..(4 * ((n + 2) \div 3)) |->
         LET g == 3 * ((k - 1) \div 4)
             pos == (k - 1) % 4
         IN  IF pos = 0 THEN B64Char(byte(g + 1) \div 4)
             ELSE IF pos = 1
               THEN B64Char((byte(g + 1) % 4) * 16 + (byte(g + 2) \div 16))
             ELSE IF pos = 2
               THEN (IF g + 2 > n THEN 61
                     ELSE B64Char((byte(g + 2) % 16) * 4 + (byte(g + 3) \div 64)))
             ELSE (IF g + 3 > n THEN 61 ELSE B64Char(byte(g + 3) % 64))]

\* the sextets of a base64 text: it ends at the first '=', other characters
\* outside the alphabet are skipped
Sextets(text) ==
  LET stops == {i \in 1..Len(text) : text[i] = 61}
      end == IF stops = {} THEN Len(text)
             ELSE (CHOOSE i \in stops : \A k \in stops : i <= k) - 1
      InAlphabet(c) == B64Val(c) >= 0
      kept == SelectSeq(SubSeq(text, 1, end), InAlphabet)
  IN  [i \in 1..Len(kept) |-> B64Val(kept[i])]

\* Buffer.from(text, 'base64'): 3 bytes for every 4 sextets
fromBase64(text) ==
  LET v == Sextets(text)
  IN  [j \in 1..((Len(v) * 6) \div 8) |->
         LET s == ((8 * (j - 1)) \div 6) + 1
             o == (8 * (j - 1)) % 6
         IN  IF o = 0 THEN v[s] * 4 + (v[s + 1] \div 16)
             ELSE IF o = 2 THEN (v[s] % 16) * 16 + (v[s + 1] \div 4)
             ELSE (v[s] % 4) * 64 + v[s + 1]]

\* "trait_type" and "value", the keys of an Attribute
KeyTraitType == <<116, 114, 97, 105, 116, 95, 116, 121, 112, 101>>
KeyValue == <<118, 97, 108, 117, 101>>

\* JSON.stringify of a string: quoted, with " and \ escaped
JsonEscape(str) ==
  Flatten([i \in 1..Len(str) |->
             IF str[i] = 34 THEN <<92, 34>>
             ELSE IF str[i] = 92 THEN <<92, 92>>
             ELSE <<str[i]>>],
          1, Len(str))

JsonString(str) == <<34>> \o JsonEscape(str) \o <<34>>

JsonAttribute(a) ==
  <<123>> \o JsonString(KeyTraitType) \o <<58>> \o JsonString(a.trait_type)
    \o <<44>> \o JsonString(KeyValue) \o <<58>> \o JsonString(a.value) \o <<125>>

RECURSIVE JsonElements(_)
JsonElements(attrs) ==
  IF attrs = << >> THEN << >>
  ELSE IF Len(attrs) = 1 THEN JsonAttribute(attrs[1])
  ELSE JsonAttribute(attrs[1]) \o <<44>> \o JsonElements(Tail(attrs))

\* JSON.stringify(attrs) for attrs: Attribute[]
JSONstringify(attrs) == <<91>> \o JsonElements(attrs) \o <<93>>

\* JSON.parse, for the texts an Attribute[] serialises to: an array of objects
\* whose members are strings.  ok = FALSE stands for a text the try block of
\* decryptMetadata throws on: a SyntaxError of JSON.parse (a truncated text) or
\* the TypeError of spreading a parsed value that is not iterable (an object).
ParseFail == [ok |-> FALSE, value |-> << >>, next |-> 0]

\* the characters of a JSON string from position p (after the opening quote)
RECURSIVE ParseChars(_, _, _)
ParseChars(text, p, acc) ==
  IF p > Len(text) THEN ParseFail
  ELSE IF text[p] = 34 THEN [ok |-> TRUE, value |-> acc, next |-> p + 1]
  ELSE IF text[p] = 92
    THEN IF p + 1 <= Len(text) /\ text[p + 1] \in {34, 92, 47}
           THEN ParseChars(text, p + 2, Append(acc, text[p + 1]))
           ELSE ParseFail
  ELSE IF text[p] < 32 THEN ParseFail
  ELSE ParseChars(text, p + 1, Append(acc, text[p]))

ParseString(text, p) ==
  IF p <= Len(text) /\ text[p] = 34 THEN ParseChars(text, p + 1, << >>) ELSE ParseFail

\* "key":"value" at p: the value, once the key k is read
MemberValue(k, v) ==
  IF ~v.ok THEN ParseFail
  ELSE [ok |-> TRUE, value |-> <<k.value, v.value>>, next |-> v.next]

MemberAfterKey(text, k) ==
  IF ~k.ok \/ k.next > Len(text) \/ text[k.next] # 58 THEN ParseFail
  ELSE MemberValue(k, ParseString(text, k.next + 1))

ParseMember(text, p) == MemberAfterKey(text, ParseString(text, p))

\* the members of an object from p (after '{' or ','), up to and with '}'
RECURSIVE ParseMembers(_, _, _)
MembersAfter(text, acc, m) ==
  IF ~m.ok \/ m.next > Len(text) THEN ParseFail
  ELSE IF text[m.next] = 44 THEN ParseMembers(text, m.next + 1, Append(acc, m.value))
  ELSE IF text[m.next] = 125
    THEN [ok |-> TRUE, value |-> Append(acc, m.value), next |-> m.next + 1]
  ELSE ParseFail

ParseMembers(text, p, acc) == MembersAfter(text, acc, ParseMember(text, p))

HasMember(members, key) == \E i \in 1..Len(members) : members[i][1] = key
\* the last member of that key, as V8 keeps it
MemberOf(members, key) ==
  LET i == CHOOSE n \in 1..Len(members) :
             /\ members[n][1] = key
             /\ \A k \in (n + 1)..Len(members) : members[k][1] # key
  IN  members[i][2]

\* an Attribute from the members ms of an object
ObjectOf(ms) ==
  IF ~ms.ok \/ ~HasMember(ms.value, KeyTraitType) \/ ~HasMember(ms.value, KeyValue)
    THEN ParseFail
    ELSE [ok |-> TRUE,
          value |-> [trait_type |-> MemberOf(ms.value, KeyTraitType),
                     value |-> MemberOf(ms.value, KeyValue)],
          next |-> ms.next]

ParseObject(text, p) ==
  IF p > Len(text) \/ text[p] # 123 THEN ParseFail
  ELSE ObjectOf(ParseMembers(text, p + 1, << >>))

\* the objects of an array from p (after '[' or ','), up to and with ']'
RECURSIVE ParseObjects(_, _, _)
ObjectsAfter(text, acc, o) ==
  IF ~o.ok \/ o.next > Len(text) THEN ParseFail
  ELSE IF text[o.next] = 44 THEN ParseObjects(text, o.next + 1, Append(acc, o.value))
  ELSE IF text[o.next] = 93
    THEN [ok |-> TRUE, value |-> Append(acc, o.value), next |-> o.next + 1]
  ELSE ParseFail

ParseObjects(text, p, acc) == ObjectsAfter(text, acc, ParseObject(text, p))

\* the array is the whole text
WholeText(text, r) == IF r.ok /\ r.next = Len(text) + 1 THEN r ELSE ParseFail

JSONparse(text) ==
  IF Len(text) < 2 \/ text[1] # 91 THEN ParseFail
  ELSE IF text[2] = 93
    THEN (IF Len(text) = 2 THEN [ok |-> TRUE, value |-> << >>, next |-> 3] ELSE ParseFail)
  ELSE WholeText(text, ParseObjects(text, 2, << >>))

\* ---------------------------------------------------------- the data model
\* models/metadata.ts: enum PrivacyLevel
None == 0
Light == 1
Medium == 2
Heavy == 3
Complete == 4
PrivacyLevels == {None, Light, Medium, Heavy, Complete}

\* PrivacyLevel[privacyLevel]: the enum's reverse mapping
PrivacyLevelName(privacyLevel) ==
  CASE privacyLevel = None -> "None"
    [] privacyLevel = Light -> "Light"
    [] privacyLevel = Medium -> "Medium"
    [] privacyLevel = Heavy -> "Heavy"
    [] privacyLevel = Complete -> "Complete"
    [] OTHER -> "undefined"

\* the trait types the client names, and one it does not
SecretCode == <<83, 101, 99, 114, 101, 116, 32, 67, 111, 100, 101>>
AgentName == <<65, 103, 101, 110, 116, 32, 78, 97, 109, 101>>
Mission == <<77, 105, 115, 115, 105, 111, 110>>
Origin == <<79, 114, 105, 103, 105, 110>>
Accessory == <<65, 99, 99, 101, 115, 115, 111, 114, 121>>
Symbols == <<83, 121, 109, 98, 111, 108, 115>>
Background == <<66, 97, 99, 107, 103, 114, 111, 117, 110, 100>>

\* models/metadata.ts: Attribute
Attribute(t, v) == [trait_type |-> t, value |-> v]

\* models/metadata.ts: PrivateData; an optional member is << >> or <<its value>>
PrivateData(level, enc, vrm) ==
  [privacyLevel |-> level, encryptedAttributes |-> enc, vrmConfig |-> vrm]

\* models/metadata.ts: GlitchGangMetadata; privateData is a reference to a
\* PrivateData object (an index into the object store), 0 when undefined
Metadata(attrs, ref) == [attributes |-> attrs, privateData |-> ref]

\* the PrivateData object a metadata object refers to, if any
PrivateDataOf(metadata, objects) ==
  IF metadata.privateData = 0 THEN << >> ELSE <<objects[metadata.privateData]>>

\* ------------------------------------------------ GlitchGangPrivacyClient
getSensitiveAttributes_completeAsNone(privacyLevel) ==
  CASE privacyLevel = Light -> <<SecretCode, AgentName>>
    [] privacyLevel = Medium -> <<SecretCode, AgentName, Mission, Origin>>
    [] privacyLevel = Heavy -> <<SecretCode, AgentName, Mission, Origin, Accessory, Symbols>>
    [] OTHER -> << >>

getSensitiveAttributes(privacyLevel) ==
  CASE privacyLevel = None -> << >>
    [] privacyLevel = Light -> <<SecretCode, AgentName>>
    [] privacyLevel = Medium -> <<SecretCode, AgentName, Mission, Origin>>
    [] privacyLevel \in {Heavy, Complete} ->
         <<SecretCode, AgentName, Mission, Origin, Accessory, Symbols>>
    [] OTHER -> << >>

\* Array.prototype.includes
includes(array, x) == \E i \in 1..Len(array) : array[i] = x

\* the loop of protectMetadata over metadata.attributes, from index i
RECURSIVE PartitionAttributes(_, _, _, _, _)
PartitionAttributes(attributes, i, sensitiveAttributes, privateAttrs, publicAttrs) ==
  IF i > Len(attributes)
    THEN [privateAttrs |-> privateAttrs, publicAttrs |-> publicAttrs]
  ELSE IF includes(sensitiveAttributes, attributes[i].trait_type)
    THEN PartitionAttributes(attributes, i + 1, sensitiveAttributes,
                             Append(privateAttrs, attributes[i]), publicAttrs)
    ELSE PartitionAttributes(attributes, i + 1, sensitiveAttributes,
                             privateAttrs, Append(publicAttrs, attributes[i]))

\* the outcome of a client call: the value returned, the object store after
\* the call, and the error a catch block swallowed, if any
Result(value, objects, caught) ==
  [threw |-> FALSE, error |-> "", value |-> value, objects |-> objects, caught |-> caught]
Failure(error, arg, objects) ==
  [threw |-> TRUE, error |-> error, value |-> arg, objects |-> objects, caught |-> ""]

\* "[PROTECTED]"
Placeholder == <<91, 80, 82, 79, 84, 69, 67, 84, 69, 68, 93>>

protectMetadata_placeholders(metadata, privacyLevel, objects, key, seed) ==
  LET sensitiveAttributes == getSensitiveAttributes(privacyLevel)
      parts == PartitionAttributes(metadata.attributes, 1, sensitiveAttributes, << >>, << >>)
      masked == [n \in 1..Len(metadata.attributes) |->
                   IF includes(sensitiveAttributes, metadata.attributes[n].trait_type)
                     THEN Attribute(metadata.attributes[n].trait_type, Placeholder)
                     ELSE metadata.attributes[n]]
  IN  IF Len(parts.privateAttrs) > 0
        THEN LET encrypted == encrypt(BufferFrom(JSONstringify(parts.privateAttrs)), key, seed)
                 privateData == PrivateData(PrivacyLevelName(privacyLevel),
                                            <<toBase64(encrypted.data)>>, << >>)
             IN  Result(Metadata(masked, Len(objects) + 1), Append(objects, privateData), "")
        ELSE Result(Metadata(masked, metadata.privateData), objects, "")

protectMetadata_alwaysSeals(metadata, privacyLevel, objects, key, seed) ==
  LET sensitiveAttributes == getSensitiveAttributes(privacyLevel)
      parts == PartitionAttributes(metadata.attributes, 1, sensitiveAttributes, << >>, << >>)
      encrypted == encrypt(BufferFrom(JSONstringify(parts.privateAttrs)), key, seed)
      privateData == PrivateData(PrivacyLevelName(privacyLevel),
                                 <<toBase64(encrypted.data)>>, << >>)
  IN  Result(Metadata(parts.publicAttrs, Len(objects) + 1), Append(objects, privateData), "")

\* protectMetadata(metadata, privacyLevel) of a client with encryptionKey key
protectMetadata(metadata, privacyLevel, objects, key, seed) ==
  LET sensitiveAttributes == getSensitiveAttributes(privacyLevel)
      parts == PartitionAttributes(metadata.attributes, 1, sensitiveAttributes, << >>, << >>)
  IN  IF Len(parts.privateAttrs) > 0
        THEN LET privateJson == JSONstringify(parts.privateAttrs)
                 encrypted == encrypt(BufferFrom(privateJson), key, seed)
                 encryptedB64 == toBase64(encrypted.data)
                 privateData == PrivateData(PrivacyLevelName(privacyLevel),
                                            <<encryptedB64>>, << >>)
             IN  IF encrypted.threw
                   THEN Failure(encrypted.error, metadata, objects)
                   ELSE Result(Metadata(parts.publicAttrs, Len(objects) + 1),
                               Append(objects, privateData), "")
        \* the spread copy keeps the privateData reference of the argument
        ELSE Result(Metadata(parts.publicAttrs, metadata.privateData), objects, "")

decryptMetadata_privateOnly(protectedMetadata, objects, key) ==
  LET privateData == PrivateDataOf(protectedMetadata, objects)
  IN  IF privateData = << >> \/ privateData[1].encryptedAttributes = << >>
        THEN Result(protectedMetadata, objects, "")
        ELSE LET decryptedData == decrypt(fromBase64(privateData[1].encryptedAttributes[1]), key)
                 privateAttrs == JSONparse(toString(decryptedData.data))
             IN  Result(Metadata(privateAttrs.value, protectedMetadata.privateData), objects, "")

decryptMetadata_privateFirst(protectedMetadata, objects, key) ==
  LET privateData == PrivateDataOf(protectedMetadata, objects)
  IN  IF privateData = << >> \/ privateData[1].encryptedAttributes = << >>
        THEN Result(protectedMetadata, objects, "")
        ELSE LET decryptedData == decrypt(fromBase64(privateData[1].encryptedAttributes[1]), key)
                 privateAttrs == JSONparse(toString(decryptedData.data))
             IN  Result(Metadata(privateAttrs.value \o protectedMetadata.attributes,
                                 protectedMetadata.privateData), objects, "")

\* decryptMetadata(protectedMetadata) of a client with encryptionKey key
decryptMetadata(protectedMetadata, objects, key) ==
  LET privateData == PrivateDataOf(protectedMetadata, objects)
  IN  IF \/ privateData = << >>
         \/ privateData[1].encryptedAttributes = << >>
         \/ privateData[1].encryptedAttributes[1] = << >>
        THEN Result(protectedMetadata, objects, "")
        ELSE LET encryptedData == fromBase64(privateData[1].encryptedAttributes[1])
                 decryptedData == decrypt(encryptedData, key)
                 privateAttrs == JSONparse(toString(decryptedData.data))
             IN  IF decryptedData.threw
                   \* catch (error): logged, the argument is returned
                   THEN Result(protectedMetadata, objects, decryptedData.error)
                 ELSE IF ~privateAttrs.ok
                   THEN Result(protectedMetadata, objects, "SyntaxError")
                 ELSE Result(Metadata(protectedMetadata.attributes \o privateAttrs.value,
                                      protectedMetadata.privateData), objects, "")

\* models/metadata.ts: VrmConfig, with the settings addVrmPrivacy writes
VrmConfig(modelUri) ==
  [modelUri |-> modelUri,
   privacySettings |-> [position |-> "medium", voice |-> "high",
                        gesture |-> "medium", animation |-> "low"]]

\* addVrmPrivacy(metadata, modelUri): the spread copy shares the PrivateData
\* object of the argument, which is updated in place when there is one
addVrmPrivacy(metadata, modelUri, objects) ==
  IF metadata.privateData = 0
    THEN Result(Metadata(metadata.attributes, Len(objects) + 1),
                Append(objects, PrivateData("Medium", << >>, <<VrmConfig(modelUri)>>)), "")
    ELSE Result(Metadata(metadata.attributes, metadata.privateData),
                [objects EXCEPT ![metadata.privateData].vrmConfig = <<VrmConfig(modelUri)>>],
                "")

\* ------------------------------------------------------ behavioural frames
\* A number is held in thousandths: 1.0 is Scale.
Scale == 1000

\* the number n / d
Fixed(n, d) == (n * Scale) \div d

\* NaN, the value of 0 / 0: not a number, outside every range
NaN == -1000000000

\* Math.PI
PI == 3142

Mul(a, b) == (a * b) \div Scale
Div(a, b) == (a * Scale) \div b

Mathmax(a, b) == IF a > b THEN a ELSE b
Mathmin(a, b) == IF a < b THEN a ELSE b

\* Math.sqrt(n / Scale^2) for n a sum of squares
Mathsqrt(n) == CHOOSE r \in 0..(4 * Scale) : r * r <= n /\ n < (r + 1) * (r + 1)

Cube(x) == Mul(Mul(x, x), x)

\* Math.sin and Math.cos for an angle of at most pi / 2, by their series
Mathsin(x) ==
  x - (Cube(x) \div 6) + (Mul(Cube(x), Mul(x, x)) \div 120)
    - (Mul(Mul(Cube(x), Cube(x)), x) \div 5040)

Mathcos(x) ==
  Scale - (Mul(x, x) \div 2) + (Mul(Cube(x), x) \div 24) - (Mul(Cube(x), Cube(x)) \div 720)

\* Math.random(), the k-th draw of a call with the generator in state seed:
\* 0, 0.25, 0.5 or 0.75
Mathrandom(seed, k) == (IF seed < 4 THEN seed ELSE (seed + k) % 4) * (Scale \div 4)

\* the generator's states: four that repeat one value, two that cycle
MaskSeeds == 0..5

\* models/metadata.ts: PositionData, RotationData, VoiceData, GestureData
PositionData(x, y, z) == [x |-> x, y |-> y, z |-> z]
RotationData(x, y, z, w) == [x |-> x, y |-> y, z |-> z, w |-> w]
VoiceData(frequency, amplitude, pitch, timbre) ==
  [frequency |-> frequency, amplitude |-> amplitude, pitch |-> pitch, timbre |-> timbre]
GestureData(name, intensity, speed, jointRotations) ==
  [name |-> name, intensity |-> intensity, speed |-> speed,
   jointRotations |-> jointRotations]

\* models/metadata.ts: VrmData; voice is << >> or <<a VoiceData>>; a Map
\* (animations, customData, a gesture's jointRotations) is the set of its entries
VrmData(position, rotation, voice, gestures, animations, customData) ==
  [position |-> position, rotation |-> rotation, voice |-> voice,
   gestures |-> gestures, animations |-> animations, customData |-> customData]

\* JSON.parse(JSON.stringify(vrmData)): a copy by value of the finite numbers,
\* strings, arrays and plain objects; a Map is written as {} and comes back empty
JSONclone(vrmData) ==
  VrmData(vrmData.position, vrmData.rotation, vrmData.voice,
          [i \in 1..Len(vrmData.gestures) |->
             GestureData(vrmData.gestures[i].name, vrmData.gestures[i].intensity,
                         vrmData.gestures[i].speed, {})],
          {}, {})

\* (Math.random() - 0.5) * 2 * intensity * factor, for the k-th draw
Noise(seed, k, intensity, factor) ==
  ((Mathrandom(seed, k) - Fixed(5, 10)) * 2 * intensity * factor) \div Scale

\* addPositionNoise(position, intensity), drawing from the k-th draw on
addPositionNoise(position, intensity, seed, k) ==
  PositionData(position.x + Noise(seed, k, intensity, 1),
               position.y + Noise(seed, k + 1, intensity, 1),
               position.z + Noise(seed, k + 2, intensity, 1))

NaNRotation == RotationData(NaN, NaN, NaN, NaN)

\* the angle addRotationNoise draws: intensity * Math.PI * Math.random()
noiseAngle(intensity, seed, k) == Mul(Mul(intensity, PI), Mathrandom(seed, k))

\* the axis addRotationNoise draws: each component Math.random() * 2 - 1
noiseAxis(seed, k) ==
  [x |-> Mathrandom(seed, k) * 2 - Scale,
   y |-> Mathrandom(seed, k + 1) * 2 - Scale,
   z |-> Mathrandom(seed, k + 2) * 2 - Scale]

\* the noise quaternion of an axis of length mag # 0 and a half angle
noiseQuat(axis, mag, halfAngle) ==
  RotationData(Mul(Div(axis.x, mag), Mathsin(halfAngle)),
               Mul(Div(axis.y, mag), Mathsin(halfAngle)),
               Mul(Div(axis.z, mag), Mathsin(halfAngle)),
               Mathcos(halfAngle))

QuatMultiply_reversed(o, n) ==
  RotationData(Mul(n.w, o.x) + Mul(n.x, o.w) + Mul(n.y, o.z) - Mul(n.z, o.y),
               Mul(n.w, o.y) - Mul(n.x, o.z) + Mul(n.y, o.w) + Mul(n.z, o.x),
               Mul(n.w, o.z) + Mul(n.x, o.y) - Mul(n.y, o.x) + Mul(n.z, o.w),
               Mul(n.w, o.w) - Mul(n.x, o.x) - Mul(n.y, o.y) - Mul(n.z, o.z))

\* the quaternion product as addRotationNoise writes it, from the components
\* saved in originalX..originalW (o) and noiseQuatX..noiseQuatW (n)
QuatMultiply(o, n) ==
  RotationData(Mul(o.w, n.x) + Mul(o.x, n.w) + Mul(o.y, n.z) - Mul(o.z, n.y),
               Mul(o.w, n.y) - Mul(o.x, n.z) + Mul(o.y, n.w) + Mul(o.z, n.x),
               Mul(o.w, n.z) + Mul(o.x, n.y) - Mul(o.y, n.x) + Mul(o.z, n.w),
               Mul(o.w, n.w) - Mul(o.x, n.x) - Mul(o.y, n.y) - Mul(o.z, n.z))

SumOfSquares(q) == q.x * q.x + q.y * q.y + q.z * q.z + q.w * q.w

\* the division of the four components by rotMag; 0 / 0 is NaN
DivideBy(q, rotMag) ==
  IF rotMag = 0 THEN NaNRotation
  ELSE RotationData(Div(q.x, rotMag), Div(q.y, rotMag), Div(q.z, rotMag), Div(q.w, rotMag))

Normalize(q) == DivideBy(q, Mathsqrt(SumOfSquares(q)))

\* noiseQuatX..noiseQuatW for the axis drawn: an axis of length 0 divides 0
\* by 0, which leaves NaN in the three components the axis goes into
NoiseQuaternion(axis, mag, halfAngle) ==
  IF mag = 0 THEN RotationData(NaN, NaN, NaN, Mathcos(halfAngle))
  ELSE noiseQuat(axis, mag, halfAngle)

\* rotation.x .. rotation.w as assigned before the normalisation; NaN goes
\* through every product and sum into all four components
Composed(rotation, axis, mag, halfAngle) ==
  IF mag = 0 THEN NaNRotation
  ELSE QuatMultiply(rotation, noiseQuat(axis, mag, halfAngle))

\* the rotation once the axis is drawn
RotateAbout(rotation, axis, mag, halfAngle) ==
  IF mag = 0 THEN NaNRotation
  ELSE Normalize(Composed(rotation, axis, mag, halfAngle))

AxisLength(axis) == Mathsqrt(axis.x * axis.x + axis.y * axis.y + axis.z * axis.z)

\* addRotationNoise(rotation, intensity): draw k is the angle, k+1..k+3 the axis
addRotationNoise(rotation, intensity, seed, k) ==
  RotateAbout(rotation, noiseAxis(seed, k + 1), AxisLength(noiseAxis(seed, k + 1)),
              noiseAngle(intensity, seed, k) \div 2)

addVoiceNoise_noClamp(voice, intensity, seed, k) ==
  VoiceData([i \in 1..Len(voice.frequency) |->
               voice.frequency[i] + Noise(seed, k + i - 1, intensity, 100)],
            [i \in 1..Len(voice.amplitude) |->
               voice.amplitude[i]
                 + Noise(seed, k + Len(voice.frequency) + i - 1, intensity, 1)],
            voice.pitch
              + Noise(seed, k + Len(voice.frequency) + Len(voice.amplitude), intensity, 50),
            voice.timbre
              + Noise(seed, k + Len(voice.frequency) + Len(voice.amplitude) + 1,
                      intensity, 1))

\* addVoiceNoise(voice, intensity): the draws are the frequency bins, the
\* amplitude bins, the pitch and the timbre, in this order
addVoiceNoise(voice, intensity, seed, k) ==
  VoiceData([i \in 1..Len(voice.frequency) |->
               voice.frequency[i] + Noise(seed, k + i - 1, intensity, 100)],
            [i \in 1..Len(voice.amplitude) |->
               Mathmax(0, voice.amplitude[i]
                            + Noise(seed, k + Len(voice.frequency) + i - 1, intensity, 1))],
            voice.pitch
              + Noise(seed, k + Len(voice.frequency) + Len(voice.amplitude), intensity, 50),
            Mathmax(0, Mathmin(Scale,
              voice.timbre
                + Noise(seed, k + Len(voice.frequency) + Len(voice.amplitude) + 1,
                        intensity, 1))))

\* the draws addVoiceNoise makes
VoiceDraws(voice) ==
  IF voice = << >> THEN 0 ELSE Len(voice[1].frequency) + Len(voice[1].amplitude) + 2

\* addGestureNoise(gesture, intensity)
addGestureNoise(gesture, intensity, seed, k) ==
  GestureData(gesture.name,
              Mathmax(0, Mathmin(Scale, gesture.intensity + Noise(seed, k, intensity, 1))),
              Mathmax(Fixed(1, 10), gesture.speed + Noise(seed, k + 1, intensity, 1)),
              gesture.jointRotations)

\* the gestures loop of applyVrmPrivacyMask: gesture i draws twice from k on
GesturesNoise(gestures, intensity, seed, k) ==
  [i \in 1..Len(gestures) |-> addGestureNoise(gestures[i], intensity, seed, k + 2 * (i - 1))]

\* a viewerId or nftMint that is not supplied
Undefined == "<undefined>"

\* the truthiness of an optional string
Truthy(str) == str \notin {Undefined, ""}

trustedAgents == <<"agent1.glitch.gang", "agent2.glitch.gang">>

isViewerTrusted_byMint(viewerId, nftMint) ==
  includes(trustedAgents, viewerId) \/ Truthy(nftMint)

\* isViewerTrusted(viewerId, nftMint)
isViewerTrusted(viewerId, nftMint) == includes(trustedAgents, viewerId)

\* the intensities applyVrmPrivacyMask passes to the noise functions
PositionIntensity == Fixed(5, 10)
RotationIntensity == Fixed(3, 10)
VoiceIntensity == Fixed(7, 10)
GestureIntensity == Fixed(4, 10)

\* the outcome of applyVrmPrivacyMask: the frame object returned, the frame
\* objects after the call, the trust decision if one was made, the seed if
\* the generator was drawn from
MaskResult(value, frames, decided, isTrusted, drawn) ==
  [value |-> value, frames |-> frames, decided |-> decided, isTrusted |-> isTrusted,
   drawn |-> drawn]

\* maskedData after the four noise steps, for the clone maskedData
Masked(maskedData, seed) ==
  VrmData(addPositionNoise(maskedData.position, PositionIntensity, seed, 1),
          addRotationNoise(maskedData.rotation, RotationIntensity, seed, 4),
          IF maskedData.voice = << >> THEN << >>
            ELSE <<addVoiceNoise(maskedData.voice[1], VoiceIntensity, seed, 8)>>,
          GesturesNoise(maskedData.gestures, GestureIntensity, seed,
                        8 + VoiceDraws(maskedData.voice)),
          maskedData.animations, maskedData.customData)

applyVrmPrivacyMask_masksEveryone(vrmData, viewerId, nftMint, vrmModel, frames, seed) ==
  IF ~vrmModel THEN MaskResult(vrmData, frames, FALSE, FALSE, << >>)
  ELSE MaskResult(Len(frames) + 1,
                  Append(frames, Masked(JSONclone(frames[vrmData]), seed)),
                  TRUE, Truthy(viewerId) /\ isViewerTrusted(viewerId, nftMint), <<seed>>)

\* applyVrmPrivacyMask(vrmData, viewerId, nftMint) of a client whose vrmModel is
\* loaded or null; vrmData and the value returned are references to frame objects
applyVrmPrivacyMask(vrmData, viewerId, nftMint, vrmModel, frames, seed) ==
  IF ~vrmModel THEN MaskResult(vrmData, frames, FALSE, FALSE, << >>)
  ELSE IF (IF Truthy(viewerId) THEN isViewerTrusted(viewerId, nftMint) ELSE FALSE)
    THEN MaskResult(vrmData, frames, TRUE, TRUE, << >>)
  ELSE MaskResult(Len(frames) + 1,
                  Append(frames, Masked(JSONclone(frames[vrmData]), seed)),
                  TRUE, FALSE, <<seed>>)

\* ------------------------------------------------------------------- state
VARIABLES
  chachaAvailable,  \* whether this build of Node knows chacha20-poly1305
  record,           \* the sealed record the caller holds
  sealed,           \* the seal call that produced it
  flipped,          \* whether one bit of it was inverted since
  opened,           \* the last open call on it and its outcome
  seals,            \* every seal call so far: key, cipher used, bytes drawn, nonce
  encryptionKey,    \* the client's encryptionKey
  meta,             \* the metadata object the caller holds
  objects,          \* the PrivateData objects allocated so far
  calls,            \* the client calls so far, with arguments and outcomes
  altered,          \* what happened to the sealed record outside the client
  vrmModel,         \* whether the client's vrmModel is loaded (TRUE) or null
  frames,           \* the VrmData objects allocated so far
  masks,            \* the applyVrmPrivacyMask calls so far
  retrying,         \* the retry call in progress: its locals and its history
  confirming,       \* the waitForConfirmation call in progress
  loading,          \* the loadVrmModel calls and the model they stored
  debounced         \* a debounced function: its timeout, the timers, the clock

cryptoVars == <<chachaAvailable, record, sealed, flipped, opened, seals>>
clientVars == <<encryptionKey, meta, objects, calls, altered>>
maskVars == <<vrmModel, frames, masks>>
utilVars == <<retrying, confirming, loading, debounced>>
vars == <<chachaAvailable, record, sealed, flipped, opened, seals,
          encryptionKey, meta, objects, calls, altered, vrmModel, frames, masks,
          retrying, confirming, loading, debounced>>

NoSeal == [op |-> "none", key |-> << >>, data |-> << >>, seed |-> 0, alg |-> ""]
NoOpen == [op |-> "none", key |-> << >>, out |-> Throw("", "")]

\* no retry, waitForConfirmation or loadVrmModel call made, nothing debounced
NotRetrying ==
  [pc |-> "idle", maxRetries |-> 0, initialDelay |-> 0, factor |-> 0, retries |-> 0,
   delay |-> 0, invoked |-> 0, inflight |-> 0, outcomes |-> << >>, slept |-> << >>,
   settledWith |-> 0]
NotConfirming ==
  [pc |-> "idle", timeout |-> 0, commitment |-> "", startTime |-> 0, now |-> 0,
   polled |-> << >>, out |-> ""]
NotLoading == [loads |-> << >>, vrm |-> 0]
NotDebounced ==
  [wait |-> 0, now |-> 0, timeout |-> 0, timers |-> {}, created |-> 0, events |-> << >>]

UtilIdle ==
  /\ retrying = NotRetrying
  /\ confirming = NotConfirming
  /\ loading = NotLoading
  /\ debounced = NotDebounced

\* no frame in use
MaskIdle ==
  /\ UtilIdle
  /\ vrmModel = FALSE
  /\ frames = << >>
  /\ masks = << >>

\* no client in use
ClientIdle ==
  /\ MaskIdle
  /\ encryptionKey = << >>
  /\ meta = Metadata(<< >>, 0)
  /\ objects = << >>
  /\ calls = << >>
  /\ altered = "none"

\* no record in use
CryptoIdle ==
  /\ chachaAvailable = TRUE
  /\ record = << >>
  /\ sealed = NoSeal
  /\ flipped = FALSE
  /\ opened = NoOpen
  /\ seals = << >>

InitCrypto ==
  /\ chachaAvailable \in BOOLEAN
  /\ record = << >>
  /\ sealed = NoSeal
  /\ flipped = FALSE
  /\ opened = NoOpen
  /\ seals = << >>
  /\ ClientIdle

\* nonce length of a cipher
NonceLen(alg) == IF alg = AES THEN AesIvLen ELSE ChaChaNonceLen

Seal(op, out, data, key, seed) ==
  /\ ~out.threw
  /\ record' = out.data
  /\ sealed' = [op |-> op, key |-> key, data |-> data, seed |-> seed, alg |-> out.alg]
  /\ seals' = Append(seals, [key |-> key, alg |-> out.alg,
                             drawn |-> randomBytes(seed, NonceLen(out.alg)),
                             nonce |-> SubSeq(out.data, 1, NonceLen(out.alg))])
  /\ flipped' = FALSE
  /\ opened' = NoOpen
  /\ UNCHANGED <<chachaAvailable, clientVars, maskVars, utilVars>>

Encrypt ==
  \E data \in Plaintexts, key \in Keys, seed \in Seeds :
    Seal("encrypt", encrypt(data, key, seed), data, key, seed)

EncryptChaCha20 ==
  \E data \in Plaintexts, key \in Keys, seed \in Seeds :
    Seal("encryptChaCha20", encryptChaCha20(data, key, seed, chachaAvailable),
         data, key, seed)

\* the record is altered in storage or in transit: one bit of one byte
FlipBit ==
  /\ sealed.op # "none"
  /\ ~flipped
  /\ opened.op = "none"
  /\ \E i \in 1..Len(record), b \in 0..7 :
       record' = [record EXCEPT ![i] = FlipBitOf(@, b)]
  /\ flipped' = TRUE
  /\ UNCHANGED <<chachaAvailable, sealed, opened, seals, clientVars, maskVars, utilVars>>

Decrypt ==
  /\ sealed.op # "none"
  /\ opened.op = "none"
  /\ \E key \in Keys :
       opened' = [op |-> "decrypt", key |-> key, out |-> decrypt(record, key)]
  /\ UNCHANGED <<chachaAvailable, record, sealed, flipped, seals, clientVars, maskVars, utilVars>>

DecryptChaCha20 ==
  /\ sealed.op # "none"
  /\ opened.op = "none"
  /\ \E key \in Keys :
       opened' = [op |-> "decryptChaCha20", key |-> key,
                  out |-> decryptChaCha20(record, key, chachaAvailable)]
  /\ UNCHANGED <<chachaAvailable, record, sealed, flipped, seals, clientVars, maskVars, utilVars>>

\* one record from its seal to its open
NextCrypto ==
  \/ (seals = << >> /\ Encrypt)
  \/ (seals = << >> /\ EncryptChaCha20)
  \/ FlipBit
  \/ Decrypt
  \/ DecryptChaCha20

SpecCrypto == InitCrypto /\ [][NextCrypto]_vars

\* a sequence of seal calls
NextSeal ==
  \/ (Len(seals) < MaxSeals /\ Encrypt)
  \/ (Len(seals) < MaxSeals /\ EncryptChaCha20)

SpecSeal == InitCrypto /\ [][NextSeal]_vars

\* The stand-in for the AEAD behaves as an ideal one on every record reached:
\* an open succeeds only on an unaltered record, under the sealing key, and
\* ends in the cipher that sealed it.
NoForgery ==
  (opened.op # "none" /\ ~opened.out.threw) =>
     /\ ~flipped
     /\ opened.key = sealed.key
     /\ opened.out.alg = sealed.alg

\* ------------------------------------------------------ the client's calls
\* the attributes the caller's bundles are made of
AttributePool ==
  { Attribute(Background, <<72, 97, 122, 101>>),
    Attribute(SecretCode, <<233, 34, 92>>),
    Attribute(Mission, <<78, 97, 118>>),
    Attribute(Accessory, <<71>>) }

Bundles == SeqsUpTo(AttributePool, MaxAttrs)

\* the entropy source's state at a client call
ClientSeeds == {0}

\* a client constructed with encryptionKey key, and a bundle as fetched
InitClient(key) ==
  /\ CryptoIdle
  /\ MaskIdle
  /\ encryptionKey = key
  /\ meta \in {Metadata(b, 0) : b \in Bundles}
  /\ objects = << >>
  /\ calls = << >>
  /\ altered = "none"

Init == InitClient(KeyBytes(1))

Call(op, level, arg, r) ==
  [op |-> op, level |-> level, key |-> encryptionKey,
   arg |-> arg, argData |-> PrivateDataOf(arg, objects),
   argAfter |-> PrivateDataOf(arg, r.objects),
   threw |-> r.threw, caught |-> r.caught,
   value |-> r.value, valueData |-> PrivateDataOf(r.value, r.objects)]

\* the caller keeps what the call returned (its argument, if the call threw)
ClientCall(op, level, r) ==
  /\ meta' = r.value
  /\ objects' = r.objects
  /\ calls' = Append(calls, Call(op, level, meta, r))
  /\ UNCHANGED <<cryptoVars, maskVars, utilVars, encryptionKey, altered>>

ProtectMetadata ==
  /\ Len(calls) < MaxCalls
  /\ \E privacyLevel \in PrivacyLevels, seed \in ClientSeeds :
       ClientCall("protectMetadata", privacyLevel,
                  protectMetadata(meta, privacyLevel, objects, encryptionKey, seed))

DecryptMetadata ==
  /\ Len(calls) < MaxCalls
  /\ ClientCall("decryptMetadata", None, decryptMetadata(meta, objects, encryptionKey))

\* the model the caller's avatars are loaded from
ModelUris == {"https://models.glitchgang.io/avatars/699.vrm"}

AddVrmPrivacy ==
  /\ Len(calls) < MaxCalls
  /\ \E modelUri \in ModelUris :
       ClientCall("addVrmPrivacy", None, addVrmPrivacy(meta, modelUri, objects))

Next ==
  \/ ProtectMetadata
  \/ DecryptMetadata

Spec == Init /\ [][Next]_vars

\* the same calls and addVrmPrivacy among them
NextVrm ==
  \/ ProtectMetadata
  \/ DecryptMetadata
  \/ AddVrmPrivacy

SpecVrm == Init /\ [][NextVrm]_vars

\* privacyLevel values that are no member of the enum, as a caller outside the
\* type checker (plain JavaScript, a parsed configuration) passes them
MalformedLevels == {-1, 5}

\* protectMetadata with whatever number the caller passes as privacyLevel
ProtectMetadataAtAny ==
  /\ Len(calls) < 2
  /\ \E privacyLevel \in PrivacyLevels \cup MalformedLevels, seed \in ClientSeeds :
       ClientCall("protectMetadata", privacyLevel,
                  protectMetadata(meta, privacyLevel, objects, encryptionKey, seed))

\* decryptMetadata of a bundle that went through protectMetadata twice
DecryptProtectedTwice ==
  /\ Len(calls) = 2
  /\ ClientCall("decryptMetadata", None, decryptMetadata(meta, objects, encryptionKey))

\* one bundle: protected, protected again, then revealed
NextTwice ==
  \/ ProtectMetadataAtAny
  \/ DecryptProtectedTwice

SpecTwice == Init /\ [][NextTwice]_vars

\* ---------------------------------------- a sealed bundle outside the client
HoldsSealedRecord ==
  /\ meta.privateData # 0
  /\ objects[meta.privateData].encryptedAttributes # << >>

StoredRecord == fromBase64(objects[meta.privateData].encryptedAttributes[1])

\* positions of the stored record a bit is inverted at: nonce, tag, ciphertext
FlipPositions == {1, 17, 33}

\* the stored bundle is altered: one bit of its sealed record is inverted
FlipStoredBit ==
  /\ altered = "none"
  /\ HoldsSealedRecord
  /\ \E i \in FlipPositions, b \in {0, 7} :
       objects' = [objects EXCEPT ![meta.privateData].encryptedAttributes =
                     <<toBase64([StoredRecord EXCEPT ![i] = FlipBitOf(@, b)])>>]
  /\ altered' = "flipped"
  /\ UNCHANGED <<cryptoVars, maskVars, utilVars, encryptionKey, meta, calls>>

\* the bundle reaches a client constructed with another encryptionKey
NewClient ==
  /\ altered = "none"
  /\ HoldsSealedRecord
  /\ \E key \in Keys \ {encryptionKey} : encryptionKey' = key
  /\ altered' = "otherKey"
  /\ UNCHANGED <<cryptoVars, maskVars, utilVars, meta, objects, calls>>

\* texts that are not the JSON of an attribute list: [{"trait  and  {}
MalformedPayloads == { <<91, 123, 34, 116, 114, 97, 105, 116>>, <<123, 125>> }

\* the bundle carries a record sealed under the client's key over such a text
ForeignPayload ==
  /\ altered = "none"
  /\ HoldsSealedRecord
  /\ \E text \in MalformedPayloads, seed \in ClientSeeds :
       objects' = [objects EXCEPT ![meta.privateData].encryptedAttributes =
                     <<toBase64(encrypt(BufferFrom(text), encryptionKey, seed).data)>>]
  /\ altered' = "malformed"
  /\ UNCHANGED <<cryptoVars, maskVars, utilVars, encryptionKey, meta, calls>>

\* one bundle: protected, possibly altered on its way, then revealed
NextReveal ==
  \/ (calls = << >> /\ ProtectMetadata)
  \/ FlipStoredBit
  \/ NewClient
  \/ ForeignPayload
  \/ (calls # << >> /\ calls[Len(calls)].op = "protectMetadata" /\ DecryptMetadata)

InitReveal == \E key \in Keys : InitClient(key)

SpecReveal == InitReveal /\ [][NextReveal]_vars

\* -------------------------------------------------- the client's mask calls
\* the frames the caller holds, in thousandths: a pose alone; a frame with
\* voice and a gesture; a frame whose voice and gesture values are out of range
InputFrames ==
  { VrmData(PositionData(10500, 2000, -3200), RotationData(0, 0, 0, Scale),
            << >>, << >>, {<<"idle", Scale>>}, {}),
    VrmData(PositionData(0, 0, 0), RotationData(600, 0, 800, 0),
            <<VoiceData(<<440000>>, <<100, 900>>, 1000, 500)>>,
            <<GestureData("wave", 500, 1000,
                          {<<"rightHand", RotationData(0, 0, 0, Scale)>>})>>, {}, {}),
    VrmData(PositionData(0, 0, 0), RotationData(500, 500, 500, 500),
            <<VoiceData(<< >>, <<-2000>>, 0, 1500)>>,
            <<GestureData("nod", 2000, 0, {}), GestureData("bow", -500, -1000, {})>>,
            {}, {<<"mood", "calm">>}) }

\* ownerKeypair.publicKey as a string
OwnerPublicKey == "ownerKeypair.publicKey"

ViewerIds ==
  {Undefined, "", "agent1.glitch.gang", "agent2.glitch.gang", "stranger.glitch.gang",
   OwnerPublicKey}

NftMints == {Undefined, "mint699"}

\* a client as constructed (vrmModel is null) and one frame of the caller's
InitMask ==
  /\ CryptoIdle
  /\ encryptionKey = KeyBytes(1)
  /\ meta = Metadata(<< >>, 0)
  /\ objects = << >>
  /\ calls = << >>
  /\ altered = "none"
  /\ UtilIdle
  /\ vrmModel = FALSE
  /\ frames \in {<<f>> : f \in InputFrames}
  /\ masks = << >>

\* loadVrmModel(modelUri), once the loader has called back
LoadVrmModel ==
  /\ ~vrmModel
  /\ vrmModel' = TRUE
  /\ UNCHANGED <<cryptoVars, clientVars, utilVars, frames, masks>>

\* one applyVrmPrivacyMask call as the caller sees it; level is the tier the
\* avatar is protected at, which is no argument of the call, and seed the
\* state of the generator the call would draw from
MaskCall(vrmData, viewerId, nftMint, level, seed, r) ==
  /\ frames' = r.frames
  /\ masks' = Append(masks,
       [vrmData |-> vrmData, viewerId |-> viewerId, nftMint |-> nftMint,
        level |-> level, model |-> vrmModel, seed |-> seed, input |-> frames[vrmData],
        value |-> r.value, output |-> r.frames[r.value],
        decided |-> r.decided, isTrusted |-> r.isTrusted, drawn |-> r.drawn,
        angle |-> IF r.drawn = << >> THEN 0
                  ELSE noiseAngle(RotationIntensity, r.drawn[1], 4),
        noise |-> IF r.drawn = << >> THEN << >>
                  ELSE <<NoiseQuaternion(noiseAxis(r.drawn[1], 5),
                                         AxisLength(noiseAxis(r.drawn[1], 5)),
                                         noiseAngle(RotationIntensity, r.drawn[1], 4) \div 2)>>,
        composed |-> IF r.drawn = << >> THEN << >>
                     ELSE <<Composed(frames[vrmData].rotation, noiseAxis(r.drawn[1], 5),
                                     AxisLength(noiseAxis(r.drawn[1], 5)),
                                     noiseAngle(RotationIntensity, r.drawn[1], 4) \div 2)>>])
  /\ UNCHANGED <<cryptoVars, clientVars, utilVars, vrmModel>>

Mask(refs, levels, seeds) ==
  \E vrmData \in refs, viewerId \in ViewerIds, nftMint \in NftMints,
     level \in levels, seed \in seeds :
    MaskCall(vrmData, viewerId, nftMint, level, seed,
             applyVrmPrivacyMask(vrmData, viewerId, nftMint, vrmModel, frames, seed))

ApplyVrmPrivacyMask == Mask(1..Len(frames), PrivacyLevels, MaskSeeds)

\* the caller changes the frame it was returned: moves it, adds a gesture,
\* drops the voice
MutateReturned ==
  /\ masks # << >>
  /\ frames[masks[Len(masks)].value] = masks[Len(masks)].output
  /\ \E changed \in
         { [masks[Len(masks)].output EXCEPT !.position.x = @ + Scale],
           [masks[Len(masks)].output EXCEPT
              !.gestures = Append(@, GestureData("extra", 0, Scale, {}))],
           [masks[Len(masks)].output EXCEPT !.voice = << >>, !.position.z = @ - 1] } :
       frames' = [frames EXCEPT ![masks[Len(masks)].value] = changed]
  /\ UNCHANGED <<cryptoVars, clientVars, utilVars, vrmModel, masks>>

\* one frame: masked for a viewer, then used by the caller
NextMask ==
  \/ LoadVrmModel
  \/ (masks = << >> /\ ApplyVrmPrivacyMask)
  \/ MutateReturned

SpecMask == InitMask /\ [][NextMask]_vars

\* calls for one viewer after another on the caller's frame
ApplyVrmPrivacyMaskForViewers == Mask({1}, {Medium}, {1})

NextTrust ==
  \/ LoadVrmModel
  \/ (Len(masks) < MaxMasks /\ ApplyVrmPrivacyMaskForViewers)

SpecTrust == InitMask /\ [][NextTrust]_vars

\* ------------------------------------------------------------ utils: retry
\* the idle client the utility functions are called next to
InitUtil ==
  /\ CryptoIdle
  /\ encryptionKey = KeyBytes(1)
  /\ meta = Metadata(<< >>, 0)
  /\ objects = << >>
  /\ calls = << >>
  /\ altered = "none"
  /\ MaskIdle

\* if (retries >= maxRetries) throw error, with retries already incremented
retry_oneMore(retries, maxRetries) == retries > maxRetries

retryGivesUp(retries, maxRetries) == retries >= maxRetries

\* the values the caller passes: maxRetries (default 3), initialDelay in ms
\* (default 1000), factor (default 2)
RetryLimits == -1..MaxRetries
InitialDelays == {0, 1000}
Factors == {1, 2, 3}

\* retry(fn, maxRetries, initialDelay, factor) up to its first await: the
\* locals are set and fn is called
Retry ==
  /\ retrying.pc = "idle"
  /\ \E maxRetries \in RetryLimits, initialDelay \in InitialDelays, factor \in Factors :
       retrying' = [retrying EXCEPT !.pc = "awaitFn", !.maxRetries = maxRetries,
                                    !.initialDelay = initialDelay, !.factor = factor,
                                    !.retries = 0, !.delay = initialDelay,
                                    !.invoked = 1, !.inflight = 1]
  /\ UNCHANGED <<cryptoVars, clientVars, maskVars, confirming, loading, debounced>>

\* the promise of fn() is fulfilled: return await fn()
FnResolves ==
  /\ retrying.pc = "awaitFn"
  /\ retrying' = [retrying EXCEPT !.pc = "resolved", !.inflight = @ - 1,
                                  !.outcomes = Append(@, "fulfilled"),
                                  !.settledWith = retrying.invoked]
  /\ UNCHANGED <<cryptoVars, clientVars, maskVars, confirming, loading, debounced>>

\* the promise of fn() is rejected (or fn threw): the catch block up to the
\* throw or to the await of sleep(delay)
FnRejects ==
  /\ retrying.pc = "awaitFn"
  /\ retrying' =
       IF retryGivesUp(retrying.retries + 1, retrying.maxRetries)
         THEN [retrying EXCEPT !.pc = "rejected", !.inflight = @ - 1,
                               !.outcomes = Append(@, "rejected"),
                               !.retries = @ + 1, !.settledWith = retrying.invoked]
         ELSE [retrying EXCEPT !.pc = "awaitSleep", !.inflight = @ - 1,
                               !.outcomes = Append(@, "rejected"), !.retries = @ + 1]
  /\ UNCHANGED <<cryptoVars, clientVars, maskVars, confirming, loading, debounced>>

\* sleep(delay) is over: delay *= factor, and the loop calls fn again
SleepEnds ==
  /\ retrying.pc = "awaitSleep"
  /\ retrying' = [retrying EXCEPT !.pc = "awaitFn", !.slept = Append(@, retrying.delay),
                                  !.delay = @ * retrying.factor,
                                  !.invoked = @ + 1, !.inflight = @ + 1]
  /\ UNCHANGED <<cryptoVars, clientVars, maskVars, confirming, loading, debounced>>

NextRetry ==
  \/ Retry
  \/ FnResolves
  \/ FnRejects
  \/ SleepEnds

SpecRetry == InitUtil /\ [][NextRetry]_vars

\* ---------------------------------------------- solana: waitForConfirmation
\* await sleep(1000): the pause between two polls, in ms
PollInterval == 1000

\* what connection.getSignatureStatus resolves with: value is null (<< >>) for
\* a signature the node does not know, else the status with its
\* confirmationStatus and its err (null is "")
NoStatus == [value |-> << >>]
SignatureStatus(confirmationStatus, err) ==
  [value |-> <<[confirmationStatus |-> confirmationStatus, err |-> err]>>]

Commitments == {"confirmed", "finalized"}

SignatureStatuses ==
  {NoStatus}
    \cup {SignatureStatus(c, e) : c \in {"processed", "confirmed", "finalized"},
                                 e \in {"", "InstructionError"}}

Timeouts == {n * PollInterval : n \in 0..MaxPolls}

\* the body of the loop after a poll: "true" for return true, "failed" for the
\* throw of 'Transaction failed', "sleep" for the fall through to sleep(1000)
AfterPoll(status, commitment) ==
  IF status.value # << >>
    THEN IF status.value[1].confirmationStatus = commitment THEN "true"
         ELSE IF status.value[1].err # "" THEN "failed"
         ELSE "sleep"
    ELSE "sleep"

\* while (Date.now() - startTime < timeout): the next poll, or the throw of
\* the timeout error after the loop
LoopTest(c) ==
  IF c.now - c.startTime < c.timeout
    THEN [c EXCEPT !.pc = "awaitStatus"]
    ELSE [c EXCEPT !.pc = "threw", !.out = "timeout"]

\* waitForConfirmation(connection, signature, timeout, commitment) up to its
\* first await
WaitForConfirmation ==
  /\ confirming.pc = "idle"
  /\ \E timeout \in Timeouts, commitment \in Commitments :
       confirming' = LoopTest([confirming EXCEPT !.timeout = timeout,
                                                !.commitment = commitment,
                                                !.startTime = confirming.now])
  /\ UNCHANGED <<cryptoVars, clientVars, maskVars, retrying, loading, debounced>>

\* getSignatureStatus resolved with status: the rest of the loop body
GetSignatureStatus ==
  /\ confirming.pc = "awaitStatus"
  /\ \E status \in SignatureStatuses :
       confirming' =
         CASE AfterPoll(status, confirming.commitment) = "true" ->
                [confirming EXCEPT !.pc = "returned", !.out = "true",
                                   !.polled = Append(@, status)]
           [] AfterPoll(status, confirming.commitment) = "failed" ->
                [confirming EXCEPT !.pc = "threw", !.out = "failed",
                                   !.polled = Append(@, status)]
           [] OTHER ->
                [confirming EXCEPT !.pc = "awaitSleep", !.polled = Append(@, status)]
  /\ UNCHANGED <<cryptoVars, clientVars, maskVars, retrying, loading, debounced>>

\* getSignatureStatus rejected (the node cannot be reached): the error leaves
\* waitForConfirmation as it is
GetSignatureStatusFails ==
  /\ confirming.pc = "awaitStatus"
  /\ confirming' = [confirming EXCEPT !.pc = "threw", !.out = "rpc"]
  /\ UNCHANGED <<cryptoVars, clientVars, maskVars, retrying, loading, debounced>>

\* sleep(1000) is over, after one interval or later; the loop condition is
\* evaluated again
PollSleepEnds ==
  /\ confirming.pc = "awaitSleep"
  /\ \E late \in {0, PollInterval} :
       confirming' = LoopTest([confirming EXCEPT !.now = @ + PollInterval + late])
  /\ UNCHANGED <<cryptoVars, clientVars, maskVars, retrying, loading, debounced>>

NextConfirm ==
  \/ WaitForConfirmation
  \/ GetSignatureStatus
  \/ GetSignatureStatusFails
  \/ PollSleepEnds

SpecConfirm == InitUtil /\ [][NextConfirm]_vars

\* ------------------------------------------------- the client: loadVrmModel
\* a loadVrmModel call: where it stands, and the state of the promise it returned
Load(stage, promise) == [stage |-> stage, promise |-> promise]

\* the calls that have not come to an end of their own
LoadsIn(stage) == {i \in 1..Len(loading.loads) : loading.loads[i].stage = stage}

\* loadVrmModel(modelUri): the promise is created and loader.load is started
LoadVrmModelCall ==
  /\ Len(loading.loads) < MaxLoads
  /\ loading' = [loading EXCEPT !.loads = Append(@, Load("loading", "pending"))]
  /\ UNCHANGED <<cryptoVars, clientVars, maskVars, retrying, confirming, debounced>>

\* the loader calls onLoad(gltf): removeUnnecessaryJoints, then VRM.from(gltf)
\* is started and .then registers the handler that resolves
OnLoad ==
  /\ \E i \in LoadsIn("loading") :
       loading' = [loading EXCEPT !.loads[i].stage = "converting"]
  /\ UNCHANGED <<cryptoVars, clientVars, maskVars, retrying, confirming, debounced>>

\* the loader calls onError(error): reject
OnError ==
  /\ \E i \in LoadsIn("loading") :
       loading' = [loading EXCEPT !.loads[i] = Load("loadFailed", "rejected")]
  /\ UNCHANGED <<cryptoVars, clientVars, maskVars, retrying, confirming, debounced>>

\* VRM.from(gltf) is fulfilled: this.vrmModel = vrm; resolve(vrm)
VrmFromResolves ==
  /\ \E i \in LoadsIn("converting") :
       loading' = [loading EXCEPT !.loads[i] = Load("converted", "resolved"), !.vrm = i]
  /\ vrmModel' = TRUE
  /\ UNCHANGED <<cryptoVars, clientVars, frames, masks, retrying, confirming, debounced>>

\* VRM.from(gltf) is rejected: .then has no rejection handler, the promise
\* loadVrmModel returned is neither resolved nor rejected
VrmFromRejects ==
  /\ \E i \in LoadsIn("converting") :
       loading' = [loading EXCEPT !.loads[i].stage = "conversionFailed"]
  /\ UNCHANGED <<cryptoVars, clientVars, maskVars, retrying, confirming, debounced>>

NextLoad ==
  \/ LoadVrmModelCall
  \/ OnLoad
  \/ OnError
  \/ VrmFromResolves
  \/ VrmFromRejects

\* the loader calls back on every load and every conversion comes to an end
SpecLoad ==
  /\ InitUtil
  /\ [][NextLoad]_vars
  /\ WF_vars(OnLoad \/ OnError)
  /\ WF_vars(VrmFromResolves \/ VrmFromRejects)

\* --------------------------------------------------------- utils: debounce
\* a timer setTimeout created: its id, the time it is due, the arguments its
\* callback later holds
Timer(id, due, args) == [id |-> id, due |-> due, args |-> args]

clearTimeout_ignored(timers, id) == timers

\* clearTimeout(id): the timer is cancelled, if it is still pending
clearTimeout(timers, id) == {t \in timers : t.id # id}

\* the arguments the debounced function is called with
Arguments == {"a", "b"}

Event(kind, at, args) == [kind |-> kind, at |-> at, args |-> args]

\* debounce(func, wait): the function returned, with timeout null
InitDebounce ==
  /\ CryptoIdle
  /\ encryptionKey = KeyBytes(1)
  /\ meta = Metadata(<< >>, 0)
  /\ objects = << >>
  /\ calls = << >>
  /\ altered = "none"
  /\ vrmModel = FALSE
  /\ frames = << >>
  /\ masks = << >>
  /\ retrying = NotRetrying
  /\ confirming = NotConfirming
  /\ loading = NotLoading
  /\ debounced \in {[NotDebounced EXCEPT !.wait = wait] : wait \in 0..MaxWait}

\* a call of the function returned: a pending timer is cleared, a new one set
DebouncedCall ==
  /\ debounced.created < MaxBurst
  /\ \E args \in Arguments :
       debounced' =
         [debounced EXCEPT
            !.timers = (IF debounced.timeout # 0
                          THEN clearTimeout(debounced.timers, debounced.timeout)
                          ELSE debounced.timers)
                         \cup {Timer(debounced.created + 1,
                                     debounced.now + debounced.wait, args)},
            !.timeout = debounced.created + 1,
            !.created = @ + 1,
            !.events = Append(@, Event("call", debounced.now, args))]
  /\ UNCHANGED <<cryptoVars, clientVars, maskVars, retrying, confirming, loading>>

\* a timer that is due runs later: timeout = null; func(...args)
Later ==
  /\ \E t \in debounced.timers :
       /\ debounced.now >= t.due
       /\ debounced' = [debounced EXCEPT !.timers = @ \ {t}, !.timeout = 0,
                                         !.events = Append(@, Event("func", debounced.now,
                                                                    t.args))]
  /\ UNCHANGED <<cryptoVars, clientVars, maskVars, retrying, confirming, loading>>

\* a millisecond passes; a timer that is due may run late
Tick ==
  /\ debounced.now < MaxTime
  /\ debounced' = [debounced EXCEPT !.now = @ + 1]
  /\ UNCHANGED <<cryptoVars, clientVars, maskVars, retrying, confirming, loading>>

NextDebounce ==
  \/ DebouncedCall
  \/ Later
  \/ Tick

SpecDebounce == InitDebounce /\ [][NextDebounce]_vars

\* ------------------------------------------------- claims on the encryptor
OpenOf(sealOp) == IF sealOp = "encrypt" THEN "decrypt" ELSE "decryptChaCha20"

\* C5: an open of a record with one bit inverted, or under a key other than
\* the sealing key, throws an authentication error and returns no bytes.
C5_TamperedOrWrongKeyFails ==
  (opened.op # "none" /\ (flipped \/ opened.key # sealed.key)) =>
     /\ opened.out.threw
     /\ opened.out.error = "AuthenticationError"
     /\ opened.out.data = << >>

C5_Witness ==
  /\ flipped
  /\ opened.op = "decryptChaCha20"
  /\ opened.key = sealed.key
  /\ sealed.data # << >>
  /\ opened.out.threw

\* C6: the cipher is never switched: encryptChaCha20 returns a ChaCha20-Poly1305
\* record (12 byte nonce), decryptChaCha20 ends in ChaCha20-Poly1305 whatever the
\* outcome, and no open succeeds on a record the other cipher sealed.
C6_NoImplicitCipherSwitch ==
  /\ (sealed.op = "encryptChaCha20" =>
        /\ sealed.alg = CHACHA
        /\ Len(record) = ChaChaNonceLen + TagLen + Len(sealed.data))
  /\ (opened.op = "decryptChaCha20" => opened.out.alg = CHACHA)
  /\ (opened.op # "none" /\ ~opened.out.threw => opened.op = OpenOf(sealed.op))

C8_RoundTripAndLayout ==
  /\ (sealed.op # "none" /\ ~flipped) =>
       LET n == NonceLen(sealed.alg)
           nonce == SubSeq(record, 1, n)
           tag == SubSeq(record, n + 1, n + TagLen)
           ct == SubSeq(record, n + TagLen + 1, Len(record))
       IN  /\ sealed.alg = (IF sealed.op = "encrypt" \/ ~chachaAvailable THEN AES ELSE CHACHA)
           /\ Len(record) = n + TagLen + Len(sealed.data)
           /\ nonce = randomBytes(sealed.seed, n)
           /\ tag = AuthTag(sealed.alg, sealed.key, nonce, ct)
           /\ DecipherUpdate(sealed.alg, sealed.key, nonce, ct) = sealed.data
  /\ (opened.op = OpenOf(sealed.op) /\ ~flipped /\ opened.key = sealed.key) =>
       /\ ~opened.out.threw
       /\ opened.out.data = sealed.data

C8_Witness ==
  /\ sealed.op = "encryptChaCha20"
  /\ sealed.alg = CHACHA
  /\ sealed.data # << >>
  /\ ~flipped
  /\ opened.op = "decryptChaCha20"
  /\ opened.key = sealed.key
  /\ opened.out.data = sealed.data

\* --------------------------------------------------- claims on the client
\* the tier table as the specification states it
Classify(level) ==
  CASE level = None -> {}
    [] level = Light -> {SecretCode, AgentName}
    [] level = Medium -> {SecretCode, AgentName} \cup {Mission, Origin}
    [] level \in {Heavy, Complete} ->
         {SecretCode, AgentName} \cup {Mission, Origin} \cup {Accessory, Symbols}

PublicPart(attrs, level) ==
  LET unclassified(a) == a.trait_type \notin Classify(level)
  IN  SelectSeq(attrs, unclassified)

PrivatePart(attrs, level) ==
  LET classified(a) == a.trait_type \in Classify(level)
  IN  SelectSeq(attrs, classified)

Count(seq, x) == Cardinality({i \in 1..Len(seq) : seq[i] = x})

SameBag(s, t) ==
  /\ Len(s) = Len(t)
  /\ \A i \in 1..Len(s) : Count(s, s[i]) = Count(t, s[i])

SetOf(seq) == {seq[i] : i \in 1..Len(seq)}

HasSealedRecord(privateData) ==
  privateData # << >> /\ privateData[1].encryptedAttributes # << >>

\* what the sealed record of a returned bundle holds, opened with the call's key
SealedPayload(call) ==
  JSONparse(toString(
    decrypt(fromBase64(call.valueData[1].encryptedAttributes[1]), call.key).data))

IsProtect(i) == calls[i].op = "protectMetadata"

\* C1: at tier None protectMetadata returns the attributes unchanged and in
\* order; decryptMetadata of what protectMetadata returned has the attributes
\* of the input as a multiset whenever one of them was classified private.
C1_ProtectThenReveal ==
  \A i \in 1..Len(calls) :
    IsProtect(i) =>
      /\ (calls[i].level = None => calls[i].value.attributes = calls[i].arg.attributes)
      /\ (/\ i < Len(calls)
          /\ calls[i + 1].op = "decryptMetadata"
          /\ PrivatePart(calls[i].arg.attributes, calls[i].level) # << >>)
           => SameBag(calls[i + 1].value.attributes, calls[i].arg.attributes)

C1_Witness ==
  /\ Len(calls) >= 2
  /\ IsProtect(1)
  /\ PrivatePart(calls[1].arg.attributes, calls[1].level) # << >>
  /\ PublicPart(calls[1].arg.attributes, calls[1].level) # << >>
  /\ calls[2].op = "decryptMetadata"
  /\ calls[2].value.attributes # calls[1].arg.attributes
  /\ SameBag(calls[2].value.attributes, calls[1].arg.attributes)

C4_RevealFailureSurfaces ==
  (/\ calls # << >>
   /\ calls[Len(calls)].op = "decryptMetadata"
   /\ HasSealedRecord(calls[Len(calls)].argData)
   /\ altered # "none")
     => calls[Len(calls)].threw

C10_CompleteSealsEverything ==
  \A i \in 1..Len(calls) :
    (IsProtect(i) /\ calls[i].level = Complete) =>
      /\ calls[i].value.attributes = << >>
      /\ calls[i].arg.attributes # << >> =>
           /\ HasSealedRecord(calls[i].valueData)
           /\ SealedPayload(calls[i]).value = calls[i].arg.attributes

\* the attribute list inside the sealed record a call was given, opened with
\* the call's key
ArgPayload(call) ==
  JSONparse(toString(
    decrypt(fromBase64(call.argData[1].encryptedAttributes[1]), call.key).data))

IsDecrypt(i) == calls[i].op = "decryptMetadata"

\* C11: decryptMetadata of a bundle with a sealed record that opens returns
\* the stored public attributes followed by the sealed attributes in the order
\* they were sealed in; without a sealed record it returns the attributes as
\* they are.
C11_PublicThenPrivate ==
  \A i \in 1..Len(calls) :
    IsDecrypt(i) =>
      IF HasSealedRecord(calls[i].argData)
        THEN /\ ArgPayload(calls[i]).ok
             /\ calls[i].value.attributes
                  = calls[i].arg.attributes \o ArgPayload(calls[i]).value
        ELSE calls[i].value = calls[i].arg

C11_Witness ==
  /\ Len(calls) >= 2
  /\ IsProtect(1)
  /\ IsDecrypt(2)
  /\ Len(calls[1].arg.attributes) = 2
  /\ calls[1].arg.attributes[1].trait_type = SecretCode
  /\ calls[1].arg.attributes[2].trait_type = Background
  /\ calls[2].value.attributes = <<calls[1].arg.attributes[2], calls[1].arg.attributes[1]>>

IsAddVrm(i) == calls[i].op = "addVrmPrivacy"

\* C12: the bundle protectMetadata returns at tier L carries the name of L as
\* its tier marker, also when nothing was private, and the bundle addVrmPrivacy
\* makes of it still names L.
C12_TierMarkerNamesTier ==
  \A i \in 1..Len(calls) :
    IsProtect(i) =>
      /\ calls[i].valueData # << >>
      /\ calls[i].valueData[1].privacyLevel = PrivacyLevelName(calls[i].level)
      /\ (i < Len(calls) /\ IsAddVrm(i + 1)) =>
           /\ calls[i + 1].valueData # << >>
           /\ calls[i + 1].valueData[1].privacyLevel = PrivacyLevelName(calls[i].level)

\* ----------------------------------------------------- claims on the mask
\* the trusted-identifier set of the specification
TrustedSet == {"agent1.glitch.gang", "agent2.glitch.gang"}

\* the fields of a frame the mask is about
SameFields(f, g) ==
  /\ f.position = g.position
  /\ f.rotation = g.rotation
  /\ f.voice = g.voice
  /\ f.gestures = g.gestures

\* a call in which the noise functions ran
IsMasked(m) == m.drawn # << >>

C14_TrustedResultNotAliased ==
  \A i \in 1..Len(masks) :
    masks[i].viewerId \in TrustedSet => frames[masks[i].vrmData] = masks[i].input

\* C15: at tier None the frame returned equals the input in position,
\* rotation, voice and gestures, for every viewer and every draw.
C15_TierNoneIdentity ==
  \A i \in 1..Len(masks) :
    masks[i].level = None => SameFields(masks[i].output, masks[i].input)

\* the intensity table of the specification, in thousandths
IntensityTable(level) ==
  CASE level = None -> [position |-> 0, rotation |-> 0, gesture |-> 0, voice |-> 0]
    [] level = Light ->
         [position |-> 200, rotation |-> 100, gesture |-> 200, voice |-> 200]
    [] level = Medium ->
         [position |-> 500, rotation |-> 300, gesture |-> 500, voice |-> 500]
    [] level = Heavy ->
         [position |-> 1000, rotation |-> 600, gesture |-> 800, voice |-> 800]
    [] level = Complete ->
         [position |-> 2000, rotation |-> 1000, gesture |-> 1000, voice |-> 1000]

Abs(a) == IF a < 0 THEN 0 - a ELSE a

Within(a, b, d) == Abs(a - b) <= d

InRange(v, lo, hi) == lo <= v /\ v <= hi

\* C16: for an untrusted viewer each field moves by at most the intensity the
\* table gives the tier in effect: the position axes, the perturbation angle,
\* the gesture intensity and speed, the voice amplitudes and the timbre (the
\* last four for values that start within their ranges).
C16_NoiseWithinTierTable ==
  \A i \in 1..Len(masks) :
    IsMasked(masks[i]) =>
      LET table == IntensityTable(masks[i].level)
          in == masks[i].input
          out == masks[i].output
      IN  /\ Within(out.position.x, in.position.x, table.position)
          /\ Within(out.position.y, in.position.y, table.position)
          /\ Within(out.position.z, in.position.z, table.position)
          /\ masks[i].angle <= Mul(table.rotation, PI)
          /\ \A g \in 1..Len(in.gestures) :
               (InRange(in.gestures[g].intensity, 0, Scale) /\ in.gestures[g].speed >= 100)
                 => /\ Within(out.gestures[g].intensity, in.gestures[g].intensity,
                              table.gesture)
                    /\ Within(out.gestures[g].speed, in.gestures[g].speed, table.gesture)
          /\ in.voice # << >> =>
               /\ \A a \in 1..Len(in.voice[1].amplitude) :
                    in.voice[1].amplitude[a] >= 0 =>
                      Within(out.voice[1].amplitude[a], in.voice[1].amplitude[a],
                             table.voice)
               /\ InRange(in.voice[1].timbre, 0, Scale) =>
                    Within(out.voice[1].timbre, in.voice[1].timbre, table.voice)

IsNaN(v) == v = NaN

\* a quaternion of norm 1, to the precision of the thousandths
IsUnit(q) ==
  /\ ~IsNaN(q.x) /\ ~IsNaN(q.y) /\ ~IsNaN(q.z) /\ ~IsNaN(q.w)
  /\ Within(SumOfSquares(q), Scale * Scale, 10 * Scale)

\* C17: for a unit input rotation, every tier and every draw of axis and
\* angle, the rotation of the masked frame has norm 1.
C17_MaskedRotationIsUnit ==
  \A i \in 1..Len(masks) :
    (IsMasked(masks[i]) /\ IsUnit(masks[i].input.rotation))
      => IsUnit(masks[i].output.rotation)

\* The normalisation does what it is there for on every axis that has a
\* length: the masked rotation is a unit quaternion unless the axis drawn is
\* the zero vector.
UnitUnlessZeroAxis ==
  \A i \in 1..Len(masks) :
    (IsMasked(masks[i]) /\ AxisLength(noiseAxis(masks[i].drawn[1], 5)) # 0)
      => IsUnit(masks[i].output.rotation)

\* C18: after the noise is applied for an untrusted viewer, whatever the
\* values of the input frame and the draws: every voice amplitude is >= 0, the
\* timbre is in [0, 1], every gesture intensity is in [0, 1] and every gesture
\* speed is >= 0.1.
C18_MaskedRangesHold ==
  \A i \in 1..Len(masks) :
    IsMasked(masks[i]) =>
      LET out == masks[i].output
      IN  /\ out.voice # << >> =>
               /\ \A a \in 1..Len(out.voice[1].amplitude) : out.voice[1].amplitude[a] >= 0
               /\ InRange(out.voice[1].timbre, 0, Scale)
          /\ \A g \in 1..Len(out.gestures) :
               /\ InRange(out.gestures[g].intensity, 0, Scale)
               /\ out.gestures[g].speed >= 100

C18_Witness ==
  \E i \in 1..Len(masks) :
    /\ IsMasked(masks[i])
    /\ masks[i].input.voice # << >>
    /\ masks[i].input.voice[1].timbre > Scale
    /\ masks[i].input.voice[1].amplitude[1] < 0
    /\ Len(masks[i].input.gestures) = 2
    /\ masks[i].input.gestures[2].speed < 0
    /\ masks[i].output.voice[1].timbre = Scale
    /\ masks[i].output.gestures[2].speed = 100

\* C19: a viewer is trusted exactly when a viewer identifier is supplied, is
\* not empty and is in the trusted set, whatever the nftMint and whatever was
\* decided in earlier calls; the frame is returned as it is exactly then.
C19_TrustIsMembership ==
  \A i \in 1..Len(masks) :
    masks[i].decided =>
      /\ masks[i].isTrusted
           = (/\ masks[i].viewerId # Undefined
              /\ masks[i].viewerId # ""
              /\ masks[i].viewerId \in TrustedSet)
      /\ masks[i].isTrusted = (masks[i].value = masks[i].vrmData)

C19_Witness ==
  /\ Len(masks) = 2
  /\ masks[1].decided /\ masks[2].decided
  /\ masks[1].viewerId = "stranger.glitch.gang"
  /\ masks[1].nftMint # Undefined
  /\ ~masks[1].isTrusted
  /\ masks[2].viewerId = "agent2.glitch.gang"
  /\ masks[2].nftMint = Undefined
  /\ masks[2].isTrusted

\* C20: the owner sees the behavioural data in full: with the owner's public
\* key as viewerId the frame returned equals the input in every field, while
\* a viewer without identifier is returned an obscured frame.
C20_OwnerSeesUnmasked ==
  \A i \in 1..Len(masks) :
    /\ masks[i].viewerId = OwnerPublicKey => SameFields(masks[i].output, masks[i].input)
    /\ masks[i].viewerId = Undefined => ~SameFields(masks[i].output, masks[i].input)

\* C21: the mask is a function of the frame, the viewer and the draws alone:
\* two calls on equal frames for the same viewer, with the generator in the
\* same state, return equal frames, whatever the client did in between.
C21_MaskIsPure ==
  \A i, j \in 1..Len(masks) :
    (/\ masks[i].input = masks[j].input
     /\ masks[i].viewerId = masks[j].viewerId
     /\ masks[i].nftMint = masks[j].nftMint
     /\ masks[i].seed = masks[j].seed)
      => masks[i].output = masks[j].output

\* C22: protectMetadata with a privacyLevel outside None..Complete ends in an
\* error and returns no bundle.
C22_MalformedTierRejected ==
  \A i \in 1..Len(calls) :
    (IsProtect(i) /\ calls[i].level \notin PrivacyLevels) => calls[i].threw

\* C24: a bundle protected at L1, protected again at L2 and then revealed has
\* every attribute of the original bundle, as often as the original has it.
C24_ProtectTwiceLosesNothing ==
  (/\ Len(calls) = 3
   /\ calls[1].level \in PrivacyLevels
   /\ calls[2].level \in PrivacyLevels)
    => \A n \in 1..Len(calls[1].arg.attributes) :
         Count(calls[3].value.attributes, calls[1].arg.attributes[n])
           >= Count(calls[1].arg.attributes, calls[1].arg.attributes[n])

\* C25: protectMetadata and addVrmPrivacy leave the object passed in as it
\* was: its privateData section after the call is its privateData section
\* before the call (its attributes list is never written).
C25_ArgumentUnchanged ==
  \A i \in 1..Len(calls) :
    (IsProtect(i) \/ IsAddVrm(i)) => calls[i].argAfter = calls[i].argData

\* the Hamilton product p (x) q of two quaternions, p the left operand
HamiltonProduct(p, q) ==
  IF \E c \in {p.x, p.y, p.z, p.w, q.x, q.y, q.z, q.w} : IsNaN(c) THEN NaNRotation
  ELSE [w |-> Mul(p.w, q.w) - Mul(p.x, q.x) - Mul(p.y, q.y) - Mul(p.z, q.z),
        x |-> Mul(p.w, q.x) + Mul(p.x, q.w) + Mul(p.y, q.z) - Mul(p.z, q.y),
        y |-> Mul(p.w, q.y) - Mul(p.x, q.z) + Mul(p.y, q.w) + Mul(p.z, q.x),
        z |-> Mul(p.w, q.z) + Mul(p.x, q.y) - Mul(p.y, q.x) + Mul(p.z, q.w)]

\* C23: what addRotationNoise writes before it normalises is the Hamilton
\* product original (x) noise, of the rotation as it was at the call (left)
\* and the noise quaternion (right).
C23_OriginalTimesNoise ==
  \A i \in 1..Len(masks) :
    IsMasked(masks[i]) =>
      masks[i].composed[1] = HamiltonProduct(masks[i].input.rotation, masks[i].noise[1])

C23_Witness ==
  \E i \in 1..Len(masks) :
    /\ IsMasked(masks[i])
    /\ ~IsNaN(masks[i].noise[1].x)
    /\ masks[i].composed[1] = HamiltonProduct(masks[i].input.rotation, masks[i].noise[1])
    /\ masks[i].composed[1] # HamiltonProduct(masks[i].noise[1], masks[i].input.rotation)

\* C26: for an untrusted viewer the input frame stays as it was, and the
\* frame returned has the gestures of the input by count, order, name and
\* jointRotations, voice arrays of the same lengths, and the animations and
\* customData of the input.
C26_OnlyNoisedFieldsDiffer ==
  \A i \in 1..Len(masks) :
    IsMasked(masks[i]) =>
      LET in == masks[i].input
          out == masks[i].output
      IN  /\ frames[masks[i].vrmData] = in
          /\ Len(out.gestures) = Len(in.gestures)
          /\ \A g \in 1..Len(in.gestures) :
               /\ out.gestures[g].name = in.gestures[g].name
               /\ out.gestures[g].jointRotations = in.gestures[g].jointRotations
          /\ (out.voice = << >>) = (in.voice = << >>)
          /\ in.voice # << >> =>
               /\ Len(out.voice[1].frequency) = Len(in.voice[1].frequency)
               /\ Len(out.voice[1].amplitude) = Len(in.voice[1].amplitude)
          /\ out.animations = in.animations
          /\ out.customData = in.customData

\* What the clone does keep: the input frame, and in the frame returned the
\* gestures by count, order and name and the lengths of the voice arrays.
ClonedShapeKept ==
  \A i \in 1..Len(masks) :
    IsMasked(masks[i]) =>
      LET in == masks[i].input
          out == masks[i].output
      IN  /\ frames[masks[i].vrmData] = in
          /\ Len(out.gestures) = Len(in.gestures)
          /\ \A g \in 1..Len(in.gestures) : out.gestures[g].name = in.gestures[g].name
          /\ in.voice # << >> =>
               /\ Len(out.voice[1].frequency) = Len(in.voice[1].frequency)
               /\ Len(out.voice[1].amplitude) = Len(in.voice[1].amplitude)

\* ------------------------------------------------------ claims on the utils
Max(a, b) == IF a > b THEN a ELSE b

RECURSIVE Power(_, _)
Power(b, e) == IF e = 0 THEN 1 ELSE b * Power(b, e - 1)

\* C27: retry runs its attempts one at a time and calls fn at most
\* max(1, maxRetries) times; it resolves with the first attempt that succeeds
\* and attempts nothing after it; it rejects only after max(1, maxRetries)
\* failed attempts, with the error of the last one; the wait before the k-th
\* re-attempt is initialDelay * factor^(k-1).
C27_RetryBoundedBackoff ==
  LET limit == Max(1, retrying.maxRetries)
      failed == [k \in 1..(retrying.invoked - 1) |-> "rejected"]
  IN  retrying.pc # "idle" =>
        /\ retrying.inflight <= 1
        /\ retrying.invoked <= limit
        /\ Len(retrying.slept) = retrying.invoked - 1
        /\ \A k \in 1..Len(retrying.slept) :
             retrying.slept[k] = retrying.initialDelay * Power(retrying.factor, k - 1)
        /\ retrying.pc = "resolved" =>
             /\ retrying.inflight = 0
             /\ retrying.outcomes = Append(failed, "fulfilled")
             /\ retrying.settledWith = retrying.invoked
        /\ retrying.pc = "rejected" =>
             /\ retrying.inflight = 0
             /\ retrying.invoked = limit
             /\ retrying.outcomes = Append(failed, "rejected")
             /\ retrying.settledWith = limit

C27_Witness ==
  /\ retrying.pc = "rejected"
  /\ retrying.maxRetries = 3
  /\ retrying.invoked = 3
  /\ retrying.slept = <<1000, 2000>>

HasErr(status) == status.value # << >> /\ status.value[1].err # ""

\* C28: waitForConfirmation returns true only when the status polled last
\* has the commitment asked for and no err; a polled status with an err makes
\* the call throw 'Transaction failed', never return true.
C28_TrueOnlyWithoutErr ==
  /\ confirming.out = "true" =>
       /\ confirming.polled # << >>
       /\ AfterPoll(confirming.polled[Len(confirming.polled)], confirming.commitment)
            = "true"
       /\ ~HasErr(confirming.polled[Len(confirming.polled)])
  /\ (\E k \in 1..Len(confirming.polled) : HasErr(confirming.polled[k]))
       => confirming.out = "failed"

\* What does hold: true is returned only on a status with the commitment
\* asked for, an err on a status of another commitment level ends the call
\* with 'Transaction failed', and no poll is started once
\* Date.now() - startTime has reached timeout.
TrueOnlyAtCommitment ==
  /\ confirming.out = "true" =>
       /\ confirming.polled # << >>
       /\ confirming.polled[Len(confirming.polled)].value[1].confirmationStatus
            = confirming.commitment
  /\ \A k \in 1..Len(confirming.polled) :
       (/\ HasErr(confirming.polled[k])
        /\ confirming.polled[k].value[1].confirmationStatus # confirming.commitment)
         => confirming.out = "failed"
  /\ confirming.pc = "awaitStatus" => confirming.now - confirming.startTime < confirming.timeout
  /\ Len(confirming.polled) * PollInterval <= Max(confirming.timeout, 0)

Settled(i) == Len(loading.loads) >= i /\ loading.loads[i].promise # "pending"

\* C29: every loadVrmModel call settles in the end: its promise is resolved,
\* with the model stored, or rejected, also when the conversion fails.
C29_EveryLoadSettles ==
  \A i \in 1..MaxLoads : (Len(loading.loads) >= i) ~> Settled(i)

\* What does hold: a promise is resolved only with its model stored at that
\* moment, and the model the client holds is the model of a load that
\* resolved (the one that resolved last).
StoredModelIsOfResolvedLoad ==
  /\ loading.vrm # 0 => (vrmModel /\ loading.loads[loading.vrm].promise = "resolved")
  /\ (\E i \in 1..Len(loading.loads) : loading.loads[i].promise = "resolved")
       => loading.vrm # 0
  /\ \A i \in 1..Len(loading.loads) :
       loading.loads[i].promise = "rejected" <=> loading.loads[i].stage = "loadFailed"

\* C30: func runs only when wait ms have passed since the latest call, with
\* no call in between, once for a burst of calls and with the arguments of
\* the burst's last call; at most one timer is pending at any time.
C30_DebounceOncePerBurst ==
  LET events == debounced.events
  IN  /\ Cardinality(debounced.timers) <= 1
      /\ \A i \in 1..Len(events) :
           events[i].kind = "func" =>
             /\ i > 1
             /\ events[i - 1].kind = "call"
             /\ events[i - 1].args = events[i].args
             /\ events[i].at - events[i - 1].at >= debounced.wait
      /\ debounced.timers = {} =>
           (events = << >> \/ events[Len(events)].kind = "func")
      /\ \A t \in debounced.timers :
           /\ events[Len(events)] = Event("call", t.due - debounced.wait, t.args)
           /\ debounced.timeout = t.id

C30_Witness ==
  /\ debounced.wait = 2
  /\ Len(debounced.events) = 4
  /\ debounced.events[1] = Event("call", 0, "a")
  /\ debounced.events[2] = Event("call", 1, "b")
  /\ debounced.events[3].kind = "call"
  /\ debounced.events[4] = Event("func", debounced.events[3].at + 2, debounced.events[3].args)
  /\ debounced.timers = {}

====
